---- MODULE Spec2Model ----
(***************************************************************************)
(* The player controller of riitimus-embeddable-audio-player (the variant  *)
(* with options): the current track, the current Audio object, its volume  *)
(* and playback state, and the scrub bar the media events write to.        *)
(***************************************************************************)
EXTENDS Integers, Sequences, FiniteSets, TLC

(* ---------------------------- bounds ---------------------------------- *)

\* Audio objects created by setCurrentAudio in one run.
MaxAudios == 2

\* Lengths of the track sequences handed to the constructor.
TrackCounts == {1, 3}

\* Positions the volume bar is dragged to.
VolumePositions == {0, 7, 40, 100}
\* Every position of the volume bar (min 0, max 100).
VolumeBarRange == 0..100
\* Positions (in seconds) the scrub bar is dragged to.
SeekPositions == {0, 1}

\* Elements created in one run of the element operations.
MaxElements == 4
\* Calls of on() for one element.
MaxListeners == 3

(* --------------------- JavaScript values ------------------------------ *)

\* Every JavaScript value is a record with its typeof in the field type.
Null == [type |-> "null"]
\* srcs[index] for an index outside the array.
Undefined == [type |-> "undefined"]
\* A number (an integer for indices, a double for volumes).
Number(v) == [type |-> "number", value |-> v]
\* A string, as the sequence of its characters.
String(chars) == [type |-> "string", value |-> chars]
\* A reference to the object at address ref of the heap of Audio objects.
Ref(h) == [type |-> "object", ref |-> h]

(* --------------------- IEEE-754 doubles -------------------------------- *)
\* A finite non-negative double is mantissa * 2^exp with a 53-bit mantissa
\* hi * 2^36 + mid * 2^18 + lo whose top bit is set; 0 is all zeros.

LimbBits == 18
Limb == 2 ^ LimbBits
TopLimb == 2 ^ (LimbBits - 1)
Zero == [hi |-> 0, mid |-> 0, lo |-> 0, exp |-> 0]

BitLen(n) == CHOOSE k \in 0..24 : n < 2 ^ k /\ (k = 0 \/ n >= 2 ^ (k - 1))

\* Round the integer t3*2^54 + t2*2^36 + t1*2^18 + t0 (times 2^e, plus a
\* nonzero tail when sticky) to 53 bits, ties to even.
RoundLimbs(t3, t2, t1, t0, e, sticky) ==
    LET s == IF t3 > 0 THEN BitLen(t3) + 1 ELSE BitLen(t2) - (LimbBits - 1)
        p == 2 ^ s
        up == 2 ^ (LimbBits - s)
        dropped == t0 % p
        m0 == (t0 \div p) + (t1 % p) * up
        m1 == (t1 \div p) + (t2 % p) * up
        m2 == (t2 \div p) + (t3 % p) * up
        half == p \div 2
        roundUp == /\ s > 0
                   /\ \/ dropped > half
                      \/ dropped = half /\ (sticky \/ m0 % 2 = 1)
        n0 == IF roundUp THEN m0 + 1 ELSE m0
        n1 == IF n0 = Limb THEN m1 + 1 ELSE m1
        n2 == IF n1 = Limb THEN m2 + 1 ELSE m2
    IN  IF n2 = 2 * TopLimb
        THEN [hi |-> TopLimb, mid |-> 0, lo |-> 0, exp |-> e + s + 1]
        ELSE [hi |-> n2, mid |-> n1 % Limb, lo |-> n0 % Limb, exp |-> e + s]

\* The double of a small natural number (exact).
NumFromNat(n) ==
    IF n = 0 THEN Zero
    ELSE [hi |-> n * 2 ^ (LimbBits - 1 - BitLen(n)), mid |-> 0, lo |-> 0,
          exp |-> BitLen(n) - (3 * LimbBits - 1)]

\* x * c in double arithmetic, c a small natural number.
NumMul(x, c) ==
    IF x = Zero THEN Zero
    ELSE LET p0 == x.lo * c
             p1 == x.mid * c + (p0 \div Limb)
             p2 == x.hi * c + (p1 \div Limb)
         IN  RoundLimbs(p2 \div Limb, p2 % Limb, p1 % Limb, p0 % Limb, x.exp, FALSE)

\* x / d in double arithmetic, d a small natural number.
NumDiv(x, d) ==
    IF x = Zero THEN Zero
    ELSE LET c3 == x.hi
             c2 == (c3 % d) * Limb + x.mid
             c1 == (c2 % d) * Limb + x.lo
             c0 == (c1 % d) * Limb
         IN  RoundLimbs(c3 \div d, c2 \div d, c1 \div d, c0 \div d,
                        x.exp - LimbBits, c0 % d # 0)

(* --------------------- strings of DOM attributes ----------------------- *)
\* A string is the sequence of its characters.

DigitChars == <<"0", "1", "2", "3", "4", "5", "6", "7", "8", "9">>
NaNString == <<"N", "a", "N">>

\* Number.prototype.toString of a natural number.
RECURSIVE NumberToString(_)
NumberToString(n) ==
    IF n < 10 THEN <<DigitChars[n + 1]>>
    ELSE Append(NumberToString(n \div 10), DigitChars[(n % 10) + 1])

DigitValue(c) == CHOOSE d \in 0..9 : DigitChars[d + 1] = c

\* ToNumber of a string of decimal digits.
RECURSIVE StringToNumber(_)
StringToNumber(s) ==
    IF s = <<>> THEN 0
    ELSE 10 * StringToNumber(SubSeq(s, 1, Len(s) - 1)) + DigitValue(s[Len(s)])

(* --------------------------- tracks ------------------------------------ *)

SrcNames == <<"a.mp3", "b.mp3", "c.mp3", "d.mp3", "e.mp3">>
CoverNames == <<"a.png", "b.png", "c.png", "d.png", "e.png">>

\* The track at position k (from 1) of the sequences the model constructs the
\* player with: bare strings at odd positions, structures at even ones.
TrackAt(k) ==
    IF k % 2 = 1
    THEN [type |-> "string", value |-> SrcNames[k]]
    ELSE [type |-> "object", audio |-> SrcNames[k], coverImage |-> CoverNames[k]]

TrackLists == { [k \in 1..n |-> TrackAt(k)] : n \in TrackCounts }

\* Length in seconds of the media behind a source.
MediaDuration(src) ==
    LET k == CHOOSE j \in 1..Len(SrcNames) : SrcNames[j] = src
    IN  1 + (k % 2)

\* this._options.srcs[index]
SrcsAt(srcs, index) ==
    IF index \in 0..(Len(srcs) - 1) THEN srcs[index + 1] ELSE Undefined

\* The truthiness of srcs[i] in `if (this._options.srcs[i])`.
Truthy(track) ==
    /\ track.type # "undefined"
    /\ ~(track.type = "string" /\ track.value = "")

\* A source resolution that reads the cover image of a structured track.
AudioSrcFromCover(audioSrcFromSrcs) ==
    IF audioSrcFromSrcs.type = "string"
    THEN audioSrcFromSrcs.value
    ELSE audioSrcFromSrcs.coverImage

\* The audio source of a track: the string itself, or the field audio.
AudioSrc(audioSrcFromSrcs) ==
    IF audioSrcFromSrcs.type = "string"
    THEN audioSrcFromSrcs.value
    ELSE audioSrcFromSrcs.audio

\* ToNumber of an index operand: null counts as 0.
IndexToNumber(v) == IF v.type = "null" THEN 0 ELSE v.value

\* ToNumber of a volume operand, as a double: null is 0, a string is parsed.
VolumeToNumber(v) ==
    IF v.type = "null" THEN Zero
    ELSE IF v.type = "string" THEN NumFromNat(StringToNumber(v.value))
    ELSE v.value

(* ------------- RiitimusEmbeddableAudioPlayerElement -------------------- *)
\* The heap of elements is a sequence; an element is the record of its
\* fields, with its HTMLElement (tag, attributes, child nodes, listeners)
\* in the field htmlElement. Child nodes are named by their owners' addresses.

\* A JavaScript array.
Array(items) == [type |-> "object", items |-> items]
\* A JavaScript object used as a map from property names to values.
Object(fields) == [type |-> "object", fields |-> fields]

\* The string setAttribute stores for a value.
AttributeString(v) ==
    IF v.type = "number" THEN NumberToString(v.value) ELSE v.value

\* constructor(htmlTag, attributes): for-in over undefined sets nothing.
NewElement(htmlTag, attributes) ==
    [htmlElement |->
        [tagName |-> htmlTag,
         attributes |->
            IF attributes.type = "undefined" THEN <<>>
            ELSE [a \in DOMAIN attributes.fields |->
                     AttributeString(attributes.fields[a])],
         childNodes |-> <<>>,
         listeners |-> <<>>],
     children |-> <<>>,
     eventListeners |-> <<>>]

\* target.addEventListener(event, callback): a listener already on the list
\* is not added again.
AddEventListener(target, event, callback) ==
    LET listener == [event |-> event, callback |-> callback]
    IN  IF \E i \in DOMAIN target.listeners : target.listeners[i] = listener
        THEN target
        ELSE [target EXCEPT !.listeners = Append(@, listener)]

\* target.removeEventListener(event, callback)
RemoveEventListener(target, event, callback) ==
    LET listener == [event |-> event, callback |-> callback]
    IN  [target EXCEPT !.listeners = SelectSeq(@, LAMBDA l : l # listener)]

\* The callbacks the browser invokes when event is dispatched at target.
Invoked(target, event) ==
    LET due == SelectSeq(target.listeners, LAMBDA l : l.event = event)
    IN  [i \in DOMAIN due |-> due[i].callback]

\* A removeEventListeners() that detaches the first recorded listener only.
RECURSIVE removeFirstEventListener(_, _)
removeFirstEventListener(element, i) ==
    IF i > Len(element.eventListeners) \/ i > 1 THEN element
    ELSE removeFirstEventListener(
            [element EXCEPT !.htmlElement =
                RemoveEventListener(@, element.eventListeners[i].event,
                                    element.eventListeners[i].callback)],
            i + 1)

\* removeEventListeners(): the loop over this._eventListeners, from entry i.
RECURSIVE removeEventListeners(_, _)
removeEventListeners(element, i) ==
    IF i > Len(element.eventListeners) THEN element
    ELSE removeEventListeners(
            [element EXCEPT !.htmlElement =
                RemoveEventListener(@, element.eventListeners[i].event,
                                    element.eventListeners[i].callback)],
            i + 1)

\* on(event, callback)
on(element, event, callback) ==
    [element EXCEPT
        !.eventListeners = Append(@, [event |-> event, callback |-> callback]),
        !.htmlElement = AddEventListener(@, event, callback)]

\* obj[name] = value on an object used as a map.
SetProperty(obj, name, value) ==
    [n \in (DOMAIN obj) \cup {name} |-> IF n = name THEN value ELSE obj[n]]

\* parent.appendChild(child) on the heap: the child leaves the node it was
\* in and becomes the last child node of parent.
AppendChild(heap, parent, child) ==
    LET detached ==
            [e \in DOMAIN heap |->
                [heap[e] EXCEPT !.htmlElement.childNodes =
                    SelectSeq(@, LAMBDA c : c # child)]]
    IN  [detached EXCEPT ![parent].htmlElement.childNodes = Append(@, child)]

\* An addChild(name, child) that keeps a child already registered under
\* the name.
addChildKeepsFirst(heap, e, name, child) ==
    AppendChild(
        [heap EXCEPT ![e].children =
            IF name \in DOMAIN @ THEN @ ELSE SetProperty(@, name, Ref(child))],
        e, child)

\* addChild(name, child) of the element at address e.
addChild(heap, e, name, child) ==
    AppendChild([heap EXCEPT ![e].children = SetProperty(@, name, Ref(child))],
                e, child)

\* A _createElement(options) that builds the children with the constructor
\* alone, without their own children.
createElementShallow(heap, options) ==
    LET element == Len(heap) + 1
        created == Append(heap, NewElement(options.tag, options.attributes))
        childOptions == IF options.children.type = "undefined" THEN <<>>
                        ELSE options.children.items
        Build[i \in 0..Len(childOptions)] ==
            IF i = 0 THEN created
            ELSE addChild(Append(Build[i - 1],
                                 NewElement(childOptions[i].tag,
                                            childOptions[i].attributes)),
                          element, childOptions[i].name, Len(Build[i - 1]) + 1)
    IN  Build[Len(childOptions)]

\* _createElement(options): the heap after the call; the element it returns
\* is at address Len(heap) + 1. Build[i] is the heap after i rounds of the
\* loop over options.children.
RECURSIVE createElement(_, _)
createElement(heap, options) ==
    LET element == Len(heap) + 1
        created == Append(heap, NewElement(options.tag, options.attributes))
        childOptions == IF options.children.type = "undefined" THEN <<>>
                        ELSE options.children.items
        Build[i \in 0..Len(childOptions)] ==
            IF i = 0 THEN created
            ELSE addChild(createElement(Build[i - 1], childOptions[i]),
                          element, childOptions[i].name, Len(Build[i - 1]) + 1)
    IN  Build[Len(childOptions)]

\* The addresses of the element at address e and of the elements below it
\* in the tree of child nodes.
RECURSIVE Subtree(_, _)
Subtree(heap, e) ==
    {e} \cup UNION { Subtree(heap, heap[e].htmlElement.childNodes[i]) :
                        i \in DOMAIN heap[e].htmlElement.childNodes }

\* The descriptions _createElement is called with: attributes and an empty
\* list of children; two children, one without attributes; a child with a
\* child of its own; two children under one name.
ElementOptions ==
    << [tag |-> "input",
        attributes |-> Object([class |-> String(<<"b", "a", "r">>),
                               max |-> Number(100)]),
        children |-> Array(<<>>)],
       [tag |-> "div", attributes |-> Object([id |-> String(<<"p">>)]),
        children |-> Array(<<
            [name |-> "x", tag |-> "span",
             attributes |-> Object([class |-> String(<<"t">>)]),
             children |-> Undefined],
            [name |-> "y", tag |-> "img", attributes |-> Undefined,
             children |-> Undefined] >>)],
       [tag |-> "div", attributes |-> Undefined,
        children |-> Array(<<
            [name |-> "x", tag |-> "div", attributes |-> Undefined,
             children |-> Array(<<
                 [name |-> "z", tag |-> "span",
                  attributes |-> Object([value |-> Number(75)]),
                  children |-> Undefined] >>)] >>)],
       [tag |-> "div", attributes |-> Undefined,
        children |-> Array(<<
            [name |-> "x", tag |-> "span", attributes |-> Undefined,
             children |-> Undefined],
            [name |-> "x", tag |-> "img", attributes |-> Undefined,
             children |-> Undefined] >>)] >>

\* The names addChild is called with, and the events and callbacks of on().
ChildNames == {"x", "y"}
EventNames == {"click", "input"}
Callbacks == {"f", "g"}

(* ---------------------------- state ------------------------------------ *)

VARIABLES
    options,            \* this._options: [autoplay, srcs]
    audios,             \* the heap of Audio objects created so far
    currentAudio,       \* this._currentAudio: Null or Ref(h)
    currentAudioIndex,  \* this._currentAudioIndex: Null or Number(i)
    lastAudioVolume,    \* this._lastAudioVolume: Null or Number(double)
    progressControl,    \* attributes of audioPlaybackProgressControl
    lastOp,             \* history: the operation or event of the last step
    volumeLog,          \* history: the volume before each of the last two
                        \* consecutive mute / unmute / toggleMute calls
    elements,           \* the heap of RiitimusEmbeddableAudioPlayerElement
    call,               \* history: the arguments and the result of the last
                        \* call or event of an element
    detached            \* history: the elements whose removeEventListeners()
                        \* has run with no on() since

player == <<options, audios, currentAudio, currentAudioIndex, lastAudioVolume,
            progressControl>>
composer == <<elements, call, detached>>
vars == <<options, audios, currentAudio, currentAudioIndex, lastAudioVolume,
          progressControl, lastOp, volumeLog, elements, call, detached>>

\* new Audio(src): paused, at full volume, nothing loaded, no event queued.
\* The field timeupdate tells that the browser has queued a 'timeupdate'
\* event for the object (after a seek or a pause).
NewAudio(src) ==
    [src |-> src, paused |-> TRUE, volume |-> NumFromNat(1), currentTime |-> 0,
     readyState |-> 0, timeupdate |-> FALSE]

\* The object this._currentAudio refers to.
CurrentAudio == audios[currentAudio.ref]

\* audio.duration: NaN until the metadata is loaded.
DurationString(audio) ==
    IF audio.readyState = 0 THEN NaNString
    ELSE NumberToString(MediaDuration(audio.src))

\* audio.ended
Ended(audio) ==
    audio.readyState > 0 /\ audio.currentTime = MediaDuration(audio.src)

Init ==
    /\ options \in [autoplay : BOOLEAN, srcs : TrackLists]
    /\ audios = <<>>
    /\ currentAudio = Null
    /\ currentAudioIndex = Null
    /\ lastAudioVolume = Null
    /\ progressControl = [value |-> <<"0">>, max |-> <<>>]
    /\ lastOp = [name |-> "constructor", arg |-> 0]
    /\ volumeLog = <<>>
    /\ elements = <<>>
    /\ call = Null
    /\ detached = {}

(* ---------------- methods of RiitimusEmbeddableAudioPlayer -------------- *)
\* Each method is an action on the player's variables; a method called with
\* no current Audio throws a TypeError at its first property access and
\* leaves the state as it was.

\* An assignment of the volume that leaves out the division by 100.
SetAudioVolumeUnscaled(heap, h, volume) ==
    [heap EXCEPT ![h].volume = VolumeToNumber(volume)]

\* The heap after this._currentAudio.volume = volume / 100.
SetAudioVolume(heap, h, volume) ==
    [heap EXCEPT ![h].volume = NumDiv(VolumeToNumber(volume), 100)]

\* The heap after this._currentAudio.pause(): pausing a playing audio
\* queues a 'timeupdate' event.
PauseAudio(heap, h) ==
    [heap EXCEPT ![h].paused = TRUE,
                 ![h].timeupdate = @ \/ ~heap[h].paused]

\* The heap after this._currentAudio.play(): an ended audio seeks back to 0,
\* which queues a 'timeupdate' event.
PlayAudio(heap, h) ==
    [heap EXCEPT ![h].paused = FALSE,
                 ![h].currentTime = IF Ended(heap[h]) THEN 0 ELSE @,
                 ![h].timeupdate = @ \/ Ended(heap[h])]

\* A setCurrentAudio(index) that records the index before it resolves the
\* source.
setCurrentAudioIndexFirst(index) ==
    LET audioSrcFromSrcs == SrcsAt(options.srcs, index)
        paused == IF currentAudio # Null
                  THEN PauseAudio(audios, currentAudio.ref) ELSE audios
    IN  IF audioSrcFromSrcs = Undefined
        THEN /\ audios' = paused
             /\ currentAudioIndex' = Number(index)
             /\ UNCHANGED <<options, currentAudio, lastAudioVolume,
                            progressControl>>
        ELSE LET audioSrc == AudioSrc(audioSrcFromSrcs)
                 h == Len(audios) + 1
             IN  /\ audios' = SetAudioVolume(Append(paused, NewAudio(audioSrc)),
                                             h, Number(NumFromNat(75)))
                 /\ currentAudio' = Ref(h)
                 /\ currentAudioIndex' = Number(index)
                 /\ UNCHANGED <<options, lastAudioVolume, progressControl>>

\* A setCurrentAudio(index) that does not record the index.
setCurrentAudioKeepsIndex(index) ==
    LET audioSrcFromSrcs == SrcsAt(options.srcs, index)
        paused == IF currentAudio # Null
                  THEN PauseAudio(audios, currentAudio.ref) ELSE audios
    IN  IF audioSrcFromSrcs = Undefined
        THEN /\ audios' = paused
             /\ UNCHANGED <<options, currentAudio, currentAudioIndex,
                            lastAudioVolume, progressControl>>
        ELSE LET audioSrc == AudioSrc(audioSrcFromSrcs)
                 h == Len(audios) + 1
             IN  /\ audios' = SetAudioVolume(Append(paused, NewAudio(audioSrc)),
                                             h, Number(NumFromNat(75)))
                 /\ currentAudio' = Ref(h)
                 /\ UNCHANGED <<options, currentAudioIndex, lastAudioVolume,
                                progressControl>>

\* setCurrentAudio(index)
setCurrentAudio(index) ==
    LET audioSrcFromSrcs == SrcsAt(options.srcs, index)
        paused == IF currentAudio # Null
                  THEN PauseAudio(audios, currentAudio.ref) ELSE audios
    IN  IF audioSrcFromSrcs = Undefined
        THEN \* TypeError reading .audio of undefined, after the pause
             /\ audios' = paused
             /\ UNCHANGED <<options, currentAudio, currentAudioIndex,
                            lastAudioVolume, progressControl>>
        ELSE LET audioSrc == AudioSrc(audioSrcFromSrcs)
                 h == Len(audios) + 1
             IN  /\ audios' = SetAudioVolume(Append(paused, NewAudio(audioSrc)),
                                             h, Number(NumFromNat(75)))
                 /\ currentAudio' = Ref(h)
                 /\ currentAudioIndex' = Number(index)
                 /\ UNCHANGED <<options, lastAudioVolume, progressControl>>

\* _setAudioVolume(volume)
setAudioVolume(volume) ==
    /\ audios' = IF currentAudio = Null THEN audios
                 ELSE SetAudioVolume(audios, currentAudio.ref, volume)
    /\ UNCHANGED <<options, currentAudio, currentAudioIndex, lastAudioVolume,
                   progressControl>>

\* _setAudioCurrentTime(second): a position past the end of loaded media is
\* clamped to the duration; the seek in loaded media queues a 'timeupdate'
\* event.
setAudioCurrentTime(second) ==
    /\ audios' =
         IF currentAudio = Null THEN audios
         ELSE [audios EXCEPT
                 ![currentAudio.ref].currentTime =
                    IF CurrentAudio.readyState > 0
                       /\ second > MediaDuration(CurrentAudio.src)
                    THEN MediaDuration(CurrentAudio.src) ELSE second,
                 ![currentAudio.ref].timeupdate =
                    @ \/ CurrentAudio.readyState > 0]
    /\ UNCHANGED <<options, currentAudio, currentAudioIndex, lastAudioVolume,
                   progressControl>>

\* A _mute() that stores the volume as the fraction it reads.
muteStoresFraction ==
    IF currentAudio = Null THEN UNCHANGED player
    ELSE /\ lastAudioVolume' = Number(CurrentAudio.volume)
         /\ audios' = SetAudioVolume(audios, currentAudio.ref, Number(Zero))
         /\ UNCHANGED <<options, currentAudio, currentAudioIndex, progressControl>>

\* _mute()
mute ==
    IF currentAudio = Null THEN UNCHANGED player
    ELSE /\ lastAudioVolume' = Number(NumMul(CurrentAudio.volume, 100))
         /\ audios' = SetAudioVolume(audios, currentAudio.ref, Number(Zero))
         /\ UNCHANGED <<options, currentAudio, currentAudioIndex, progressControl>>

\* An _unmute() that falls back to 75 when no volume is stored.
unmuteDefaultsTo75 ==
    setAudioVolume(IF lastAudioVolume = Null THEN Number(NumFromNat(75))
                   ELSE lastAudioVolume)

\* _unmute(): with _lastAudioVolume null the volume is set to null / 100 = 0
\* before volume.toString() throws.
unmute == setAudioVolume(lastAudioVolume)

\* A _toggleAudioVolume() whose test is volume >= 0.
toggleAudioVolumeAlwaysMutes ==
    IF currentAudio = Null THEN UNCHANGED player ELSE mute

\* _toggleAudioVolume()
toggleAudioVolume ==
    IF currentAudio = Null THEN UNCHANGED player
    ELSE IF CurrentAudio.volume # Zero THEN mute ELSE unmute

\* A _skipPrevious() that stops at the first track by selecting it again.
skipPreviousClamped ==
    LET previousAudioIndex == IndexToNumber(currentAudioIndex) - 1
    IN  setCurrentAudio(IF previousAudioIndex < 0 THEN 0 ELSE previousAudioIndex)

\* _skipPrevious()
skipPrevious ==
    LET previousAudioIndex == IndexToNumber(currentAudioIndex) - 1
    IN  IF Truthy(SrcsAt(options.srcs, previousAudioIndex))
        THEN setCurrentAudio(previousAudioIndex)
        ELSE UNCHANGED player

\* A _skipNext() that wraps around to the first track.
skipNextWrapping ==
    LET nextAudioIndex ==
            (IndexToNumber(currentAudioIndex) + 1) % Len(options.srcs)
    IN  setCurrentAudio(nextAudioIndex)

\* A _skipNext() that skips two tracks.
skipNextByTwo ==
    LET nextAudioIndex == IndexToNumber(currentAudioIndex) + 2
    IN  IF Truthy(SrcsAt(options.srcs, nextAudioIndex))
        THEN setCurrentAudio(nextAudioIndex)
        ELSE UNCHANGED player

\* A _skipNext() that starts at the first track when none is selected.
skipNextFromNone ==
    LET nextAudioIndex == IF currentAudioIndex = Null THEN 0
                          ELSE IndexToNumber(currentAudioIndex) + 1
    IN  IF Truthy(SrcsAt(options.srcs, nextAudioIndex))
        THEN setCurrentAudio(nextAudioIndex)
        ELSE UNCHANGED player

\* _skipNext()
skipNext ==
    LET nextAudioIndex == IndexToNumber(currentAudioIndex) + 1
    IN  IF Truthy(SrcsAt(options.srcs, nextAudioIndex))
        THEN setCurrentAudio(nextAudioIndex)
        ELSE UNCHANGED player

\* A _toggleAudioPlayback() that does not test the paused property.
toggleAudioPlaybackAlwaysPlays ==
    /\ audios' = IF currentAudio = Null THEN audios
                 ELSE PlayAudio(audios, currentAudio.ref)
    /\ UNCHANGED <<options, currentAudio, currentAudioIndex, lastAudioVolume,
                   progressControl>>

\* _toggleAudioPlayback()
toggleAudioPlayback ==
    /\ audios' = IF currentAudio = Null THEN audios
                 ELSE IF CurrentAudio.paused
                      THEN PlayAudio(audios, currentAudio.ref)
                      ELSE PauseAudio(audios, currentAudio.ref)
    /\ UNCHANGED <<options, currentAudio, currentAudioIndex, lastAudioVolume,
                   progressControl>>

(* --------------- the variants of the player without options ------------ *)
\* Their constructor takes the tracks alone (options.srcs here); they have
\* no current index and no volume, and _toggleAudioPlayback is the same.

\* setCurrentAudio(index) of the variants without options: a TypeError for
\* an index outside the tracks, before anything is assigned.
setCurrentAudioMinimal(index) ==
    LET audioSrcFromSrcs == SrcsAt(options.srcs, index)
    IN  IF audioSrcFromSrcs = Undefined
        THEN UNCHANGED player
        ELSE /\ audios' = Append(audios, NewAudio(AudioSrc(audioSrcFromSrcs)))
             /\ currentAudio' = Ref(Len(audios) + 1)
             /\ UNCHANGED <<options, currentAudioIndex, lastAudioVolume,
                            progressControl>>

\* 'canplay' on h in the variants without options: the media of h is loaded
\* and the listener starts this._currentAudio.
canplay(h) ==
    /\ audios[h].readyState = 0
    /\ audios' = PlayAudio([audios EXCEPT ![h].readyState = 2], currentAudio.ref)
    /\ UNCHANGED <<options, currentAudio, currentAudioIndex, lastAudioVolume,
                   progressControl>>

(* ------------------- media events of an Audio object ------------------- *)
\* The listeners setCurrentAudio attaches to the Audio object at address h.
\* They stay attached when the object is replaced as the current one.

\* 'loadedmetadata' on h: the duration becomes known (a position set before
\* is sought, which queues a 'timeupdate' event), then the listener writes
\* the scrub bar from this._currentAudio.
loadedmetadata(h) ==
    LET loaded == [audios EXCEPT
                     ![h].readyState = 1,
                     ![h].currentTime = IF @ > MediaDuration(audios[h].src)
                                        THEN MediaDuration(audios[h].src) ELSE @,
                     ![h].timeupdate = @ \/ audios[h].currentTime > 0]
    IN  /\ audios[h].readyState = 0
        /\ audios' = loaded
        /\ progressControl' =
              [value |-> <<"0">>, max |-> DurationString(loaded[currentAudio.ref])]
        /\ UNCHANGED <<options, currentAudio, currentAudioIndex, lastAudioVolume>>

\* A 'loadeddata' listener that never starts playback.
loadeddataNeverPlays(h) ==
    /\ audios[h].readyState = 1
    /\ audios' = [audios EXCEPT ![h].readyState = 2]
    /\ UNCHANGED <<options, currentAudio, currentAudioIndex, lastAudioVolume,
                   progressControl>>

\* A 'loadeddata' listener that does not test the autoplay option.
loadeddataAlwaysPlays(h) ==
    /\ audios[h].readyState = 1
    /\ audios' = PlayAudio([audios EXCEPT ![h].readyState = 2], currentAudio.ref)
    /\ UNCHANGED <<options, currentAudio, currentAudioIndex, lastAudioVolume,
                   progressControl>>

\* A 'loadeddata' listener that starts the Audio object it is attached to.
loadeddataPlaysTarget(h) ==
    LET loaded == [audios EXCEPT ![h].readyState = 2]
    IN  /\ audios[h].readyState = 1
        /\ audios' = IF options.autoplay THEN PlayAudio(loaded, h) ELSE loaded
        /\ UNCHANGED <<options, currentAudio, currentAudioIndex, lastAudioVolume,
                       progressControl>>

\* 'loadeddata' on h: the listener starts this._currentAudio under autoplay.
loadeddata(h) ==
    LET loaded == [audios EXCEPT ![h].readyState = 2]
    IN  /\ audios[h].readyState = 1
        /\ audios' = IF options.autoplay
                     THEN PlayAudio(loaded, currentAudio.ref) ELSE loaded
        /\ UNCHANGED <<options, currentAudio, currentAudioIndex, lastAudioVolume,
                       progressControl>>

\* A queued 'timeupdate' on h (after a seek or a pause): the listener writes
\* event.target.currentTime to the scrub bar.
timeupdate(h) ==
    /\ audios[h].timeupdate
    /\ audios' = [audios EXCEPT ![h].timeupdate = FALSE]
    /\ progressControl' =
          [progressControl EXCEPT !.value = NumberToString(audios[h].currentTime)]
    /\ UNCHANGED <<options, currentAudio, currentAudioIndex, lastAudioVolume>>

\* Playback of h advances by a second; at the end of the media the browser
\* pauses the element. The 'timeupdate' of the new position fires and its
\* listener runs.
playback(h) ==
    LET second == audios[h].currentTime + 1
    IN  /\ ~audios[h].paused
        /\ audios[h].readyState = 2
        /\ ~Ended(audios[h])
        /\ audios' = [audios EXCEPT
                        ![h].currentTime = second,
                        ![h].paused = (second = MediaDuration(audios[h].src))]
        /\ progressControl' =
              [progressControl EXCEPT !.value = NumberToString(second)]
        /\ UNCHANGED <<options, currentAudio, currentAudioIndex, lastAudioVolume>>

(* --------------------------- the steps --------------------------------- *)

\* The history of a step.
Did(name, arg) ==
    /\ lastOp' = [name |-> name, arg |-> arg]
    /\ volumeLog' = <<>>
    /\ UNCHANGED composer

\* The history of a mute / unmute / toggleMute call whose volumes are logged.
DidVolume(name) ==
    /\ lastOp' = [name |-> name, arg |-> 0]
    /\ volumeLog' =
         IF currentAudio = Null THEN <<>>
         ELSE LET entry == [op |-> name, before |-> CurrentAudio.volume]
              IN  IF volumeLog = <<>> THEN <<entry>>
                  ELSE <<volumeLog[Len(volumeLog)], entry>>
    /\ UNCHANGED composer

\* The heap stays within the model's bound.
HeapBounded == Len(audios') <= MaxAudios

\* The indices setCurrentAudio is called with: the valid ones and one on
\* either side.
IndexInputs == (0 - 1)..Len(options.srcs)

SetCurrentAudioCall ==
    \E index \in IndexInputs :
        setCurrentAudio(index) /\ HeapBounded /\ Did("setCurrentAudio", index)

\* 'input' on audioVolumeBar: event.target.value is the string of the position.
VolumeBarInput(positions) ==
    \E position \in positions :
        setAudioVolume(String(NumberToString(position))) /\ Did("setVolume", position)

\* 'input' on audioPlaybackProgressControl.
ProgressControlInput ==
    \E position \in SeekPositions :
        /\ setAudioCurrentTime(StringToNumber(NumberToString(position)))
        /\ Did("seek", position)

\* 'click' on audioVolumeMuteControl.
MuteControlClick == toggleAudioVolume /\ Did("toggleMute", 0)

\* 'click' on audioSkipPreviousControl.
SkipPreviousClick == skipPrevious /\ HeapBounded /\ Did("skipPrevious", 0)

\* 'click' on audioSkipNextControl.
SkipNextClick == skipNext /\ HeapBounded /\ Did("skipNext", 0)

\* 'click' on audioTogglePlaybackControl; the history keeps whether the
\* current Audio object was paused before the click (1) or not (0).
TogglePlaybackClick ==
    /\ toggleAudioPlayback
    /\ Did("togglePlayback",
           IF currentAudio # Null /\ CurrentAudio.paused THEN 1 ELSE 0)

LoadedMetadata == \E h \in DOMAIN audios : loadedmetadata(h) /\ Did("loadedmetadata", h)

LoadedData == \E h \in DOMAIN audios : loadeddata(h) /\ Did("loadeddata", h)

TimeUpdate == \E h \in DOMAIN audios : timeupdate(h) /\ Did("timeupdate", h)

Playback == \E h \in DOMAIN audios : playback(h) /\ Did("playback", h)

\* Calls and events of the variants without options.
SetCurrentAudioMinimalCall ==
    \E index \in IndexInputs :
        setCurrentAudioMinimal(index) /\ HeapBounded /\ Did("setCurrentAudio", index)

CanPlay == \E h \in DOMAIN audios : canplay(h) /\ Did("canplay", h)

\* The history of a call or an event of the element at address e.
DidElement(name, e, record) ==
    /\ lastOp' = [name |-> name, arg |-> e]
    /\ call' = record
    /\ UNCHANGED <<player, volumeLog>>

\* this._createElement(options) with one of the descriptions.
CreateElementCall ==
    \E k \in DOMAIN ElementOptions :
        /\ elements' = createElement(elements, ElementOptions[k])
        /\ Len(elements') <= MaxElements
        /\ detached' = detached
        /\ DidElement("createElement", Len(elements) + 1,
                      [options |-> k, returned |-> Ref(Len(elements) + 1)])

\* The elements whose HTMLElement is not a child node yet.
Unattached ==
    {c \in DOMAIN elements :
        \A e \in DOMAIN elements :
            \A i \in DOMAIN elements[e].htmlElement.childNodes :
                elements[e].htmlElement.childNodes[i] # c}

\* element.addChild(name, child) with two elements of the heap: the child is
\* a built element that is not attached yet, and its HTMLElement is one that
\* appendChild accepts (it does not contain the parent's).
AddChildCall ==
    \E e \in DOMAIN elements, child \in Unattached, name \in ChildNames :
        /\ e \notin Subtree(elements, child)
        /\ elements' = addChild(elements, e, name, child)
        /\ detached' = detached
        /\ DidElement("addChild", e,
                      [name |-> name, child |-> child, returned |-> Ref(e)])

\* element.on(event, callback)
OnCall ==
    \E e \in DOMAIN elements, event \in EventNames, callback \in Callbacks :
        /\ Len(elements[e].eventListeners) < MaxListeners
        /\ elements' = [elements EXCEPT ![e] = on(@, event, callback)]
        /\ detached' = detached \ {e}
        /\ DidElement("on", e,
                      [event |-> event, callback |-> callback, returned |-> Ref(e)])

\* element.removeEventListeners()
RemoveEventListenersCall ==
    \E e \in DOMAIN elements :
        /\ elements' = [elements EXCEPT ![e] = removeEventListeners(@, 1)]
        /\ detached' = detached \cup {e}
        /\ DidElement("removeEventListeners", e, [returned |-> Undefined])

\* The browser dispatches an event at the HTMLElement of an element.
DispatchEvent ==
    \E e \in DOMAIN elements, event \in EventNames :
        /\ UNCHANGED <<elements, detached>>
        /\ DidElement("dispatchEvent", e,
                      [event |-> event,
                       invoked |-> Invoked(elements[e].htmlElement, event)])

\* Calls and clicks with the volumes logged.
MuteCall == mute /\ DidVolume("mute")

UnmuteCall == unmute /\ DidVolume("unmute")

MuteControlClickLogged == toggleAudioVolume /\ DidVolume("toggleMute")

(* ------------------------ the specifications --------------------------- *)

\* Track selection and playback, with the media events of every Audio object.
Next ==
    \/ SetCurrentAudioCall
    \/ SkipPreviousClick
    \/ SkipNextClick
    \/ TogglePlaybackClick
    \/ LoadedMetadata
    \/ LoadedData
    \/ TimeUpdate
    \/ Playback

Spec == Init /\ [][Next]_vars

\* The controls of the player without the media events: track selection
\* and the volume operations.
NextVolume ==
    \/ SetCurrentAudioCall
    \/ SkipPreviousClick
    \/ SkipNextClick
    \/ VolumeBarInput(VolumePositions)
    \/ MuteCall
    \/ UnmuteCall
    \/ MuteControlClickLogged

SpecVolume == Init /\ [][NextVolume]_vars

\* The track, playback and volume controls of the player and every media
\* event, interleaved.
NextAll ==
    \/ SetCurrentAudioCall
    \/ SkipPreviousClick
    \/ SkipNextClick
    \/ TogglePlaybackClick
    \/ VolumeBarInput({40})
    \/ MuteControlClick
    \/ LoadedMetadata
    \/ LoadedData
    \/ TimeUpdate
    \/ Playback

SpecAll == Init /\ [][NextAll]_vars

\* The scrub bar: track selection, playback, seeking and the media events.
\* The browser eventually delivers every media event that is due: media that
\* is loading gets loaded, a queued 'timeupdate' fires, and a playing Audio
\* object advances.
NextScrub ==
    \/ SetCurrentAudioCall
    \/ TogglePlaybackClick
    \/ ProgressControlInput
    \/ LoadedMetadata
    \/ LoadedData
    \/ TimeUpdate
    \/ Playback

MediaEventsDelivered ==
    \A h \in 1..MaxAudios :
        /\ WF_vars(h \in DOMAIN audios /\ loadedmetadata(h) /\ Did("loadedmetadata", h))
        /\ WF_vars(h \in DOMAIN audios /\ loadeddata(h) /\ Did("loadeddata", h))
        /\ WF_vars(h \in DOMAIN audios /\ timeupdate(h) /\ Did("timeupdate", h))
        /\ WF_vars(h \in DOMAIN audios /\ playback(h) /\ Did("playback", h))

SpecScrub == Init /\ [][NextScrub]_vars /\ MediaEventsDelivered

\* The variants of the player without options.
NextMinimal ==
    \/ SetCurrentAudioMinimalCall
    \/ TogglePlaybackClick
    \/ CanPlay
    \/ Playback

SpecMinimal == Init /\ [][NextMinimal]_vars

\* The element class on its own: a player not in use.
InitElement ==
    /\ Init
    /\ ~options.autoplay
    /\ Len(options.srcs) = 1

\* Trees of elements: _createElement and addChild.
NextElement ==
    \/ CreateElementCall
    \/ AddChildCall

SpecElement == InitElement /\ [][NextElement]_vars

\* The listeners of one element, after new
\* RiitimusEmbeddableAudioPlayerElement('button', undefined).
InitListeners ==
    /\ options = [autoplay |-> FALSE, srcs |-> [k \in 1..1 |-> TrackAt(k)]]
    /\ audios = <<>>
    /\ currentAudio = Null
    /\ currentAudioIndex = Null
    /\ lastAudioVolume = Null
    /\ progressControl = [value |-> <<"0">>, max |-> <<>>]
    /\ lastOp = [name |-> "constructor", arg |-> 1]
    /\ volumeLog = <<>>
    /\ elements = <<NewElement("button", Undefined)>>
    /\ call = Null
    /\ detached = {}

NextListeners ==
    \/ OnCall
    \/ RemoveEventListenersCall
    \/ DispatchEvent

SpecListeners == InitListeners /\ [][NextListeners]_vars

\* The mute operations from every position of the volume bar: the player
\* after setCurrentAudio(0) and an 'input' of the volume bar at the position.
InitMute ==
    \E position \in VolumeBarRange :
        /\ options \in [autoplay : BOOLEAN, srcs : TrackLists]
        /\ audios = SetAudioVolume(
                        SetAudioVolume(<<NewAudio(AudioSrc(options.srcs[1]))>>, 1,
                                       Number(NumFromNat(75))),
                        1, String(NumberToString(position)))
        /\ currentAudio = Ref(1)
        /\ currentAudioIndex = Number(0)
        /\ lastAudioVolume = Null
        /\ progressControl = [value |-> <<"0">>, max |-> <<>>]
        /\ lastOp = [name |-> "setVolume", arg |-> position]
        /\ volumeLog = <<>>
        /\ elements = <<>>
        /\ call = Null
        /\ detached = {}

NextMute ==
    \/ MuteCall
    \/ UnmuteCall
    \/ MuteControlClickLogged

SpecMute == InitMute /\ [][NextMute]_vars

(* ----------------------------- claims ---------------------------------- *)

\* The source a track resolves to.
ResolvedSource(track) ==
    IF track.type = "string" THEN track.value ELSE track.audio

ValidIndices == 0..(Len(options.srcs) - 1)

\* C1: after setCurrentAudio(i) with a valid index i, from any state, the
\* current index is i and the current Audio object is bound to the resolved
\* source of track i.
C1_SetCurrentAudioSelects ==
    (lastOp.name = "setCurrentAudio" /\ lastOp.arg \in ValidIndices) =>
        /\ currentAudioIndex = Number(lastOp.arg)
        /\ currentAudio # Null
        /\ CurrentAudio.src = ResolvedSource(options.srcs[lastOp.arg + 1])

\* C1 witness: a structured track selected while another Audio object was
\* current and playing media.
C1_Witness ==
    /\ lastOp = [name |-> "setCurrentAudio", arg |-> 1]
    /\ Len(options.srcs) > 1
    /\ options.srcs[2].type = "object"
    /\ Len(audios) = 2
    /\ audios[1].readyState = 2
    /\ CurrentAudio.src = "b.mp3"

\* C2: mute() sets the volume to 0, and unmute() right after it restores
\* the exact volume the Audio object had before the mute().
C2_MuteUnmuteRestores ==
    /\ (lastOp.name = "mute" /\ volumeLog # <<>>) => CurrentAudio.volume = Zero
    /\ ( /\ Len(volumeLog) = 2
         /\ volumeLog[1].op = "mute"
         /\ volumeLog[2].op = "unmute" ) =>
            CurrentAudio.volume = volumeLog[1].before

\* C2 witness: the round trip from position 7, where volume * 100 is not 7.
C2_Witness ==
    /\ Len(volumeLog) = 2
    /\ volumeLog[1].op = "mute"
    /\ volumeLog[2].op = "unmute"
    /\ volumeLog[1].before = NumDiv(NumFromNat(7), 100)
    /\ lastAudioVolume # Number(NumFromNat(7))
    /\ CurrentAudio.volume = NumDiv(NumFromNat(7), 100)

\* C3: when setCurrentAudio replaces the current Audio object (called
\* directly or by a skip), the new object gets the volume of the replaced one.
C3_VolumeReapplied ==
    [][(Len(audios') > Len(audios) /\ currentAudio # Null) =>
          audios'[currentAudio'.ref].volume = CurrentAudio.volume]_vars

LastIndex == Len(options.srcs) - 1

\* C4: skipNext at the last index changes neither the current index, nor the
\* current Audio object, nor any Audio object's paused status or volume, nor
\* the volume stored by mute.
C4_SkipNextAtEndNoOp ==
    [][(lastOp'.name = "skipNext" /\ currentAudioIndex = Number(LastIndex)) =>
          UNCHANGED <<audios, currentAudio, currentAudioIndex, lastAudioVolume>>]_vars

\* C4 witness: skipNext was clicked at the last index of three tracks, with
\* the current Audio object playing.
C4_Witness ==
    /\ lastOp.name = "skipNext"
    /\ Len(options.srcs) = 3
    /\ currentAudioIndex = Number(LastIndex)
    /\ ~CurrentAudio.paused
    /\ CurrentAudio.currentTime = 1

\* C5: skipPrevious at index 0 changes neither the current index, nor the
\* current Audio object, nor any Audio object's paused status or volume, nor
\* the volume stored by mute.
C5_SkipPreviousAtStartNoOp ==
    [][(lastOp'.name = "skipPrevious" /\ currentAudioIndex = Number(0)) =>
          UNCHANGED <<audios, currentAudio, currentAudioIndex, lastAudioVolume>>]_vars

\* C5 witness: skipPrevious was clicked at index 0 with the current Audio
\* object muted.
C5_Witness ==
    /\ lastOp.name = "skipPrevious"
    /\ currentAudioIndex = Number(0)
    /\ CurrentAudio.volume = Zero
    /\ lastAudioVolume # Null

\* C6: with a track selected at index i of n tracks, skipNext moves to i + 1
\* when i + 1 < n and stays otherwise, skipPrevious moves to i - 1 when i > 0
\* and stays otherwise, and the current index is always within 0..n-1.
C6_SkipsMoveByOne ==
    /\ [][(lastOp'.name = "skipNext" /\ currentAudioIndex # Null) =>
             currentAudioIndex' =
                Number(IF currentAudioIndex.value + 1 < Len(options.srcs)
                       THEN currentAudioIndex.value + 1
                       ELSE currentAudioIndex.value)]_vars
    /\ [][(lastOp'.name = "skipPrevious" /\ currentAudioIndex # Null) =>
             currentAudioIndex' =
                Number(IF currentAudioIndex.value > 0
                       THEN currentAudioIndex.value - 1
                       ELSE currentAudioIndex.value)]_vars
    /\ [](currentAudioIndex # Null => currentAudioIndex.value \in ValidIndices)

\* C6 witness: skipNext moved from index 1 to the last index of three tracks.
C6_Witness ==
    /\ lastOp.name = "skipNext"
    /\ Len(options.srcs) = 3
    /\ currentAudioIndex = Number(2)
    /\ Len(audios) = 2
    /\ audios[1].src = "b.mp3"
    /\ CurrentAudio.src = "c.mp3"

Audible(volume) == volume # Zero

\* C7: two toggleMute calls in a row leave the current Audio object audible
\* if it was audible before them and muted if it was muted.
C7_ToggleMuteTwice ==
    ( /\ Len(volumeLog) = 2
      /\ volumeLog[1].op = "toggleMute"
      /\ volumeLog[2].op = "toggleMute" ) =>
        (Audible(CurrentAudio.volume) <=> Audible(volumeLog[1].before))

\* C7 witness: two toggles in a row from an audible volume, the second one
\* restoring it.
C7_Witness ==
    /\ Len(volumeLog) = 2
    /\ volumeLog[1].op = "toggleMute"
    /\ volumeLog[2].op = "toggleMute"
    /\ Audible(volumeLog[1].before)
    /\ volumeLog[2].before = Zero
    /\ CurrentAudio.volume = volumeLog[1].before

\* C8: under autoplay, once 'loadeddata' of the current Audio object has
\* fired, the current Audio object is playing.
C8_AutoplayStartsOnLoadedData ==
    ( /\ options.autoplay
      /\ lastOp.name = "loadeddata"
      /\ lastOp.arg = currentAudio.ref ) => ~CurrentAudio.paused

\* C8 witness: setCurrentAudio(0), then the media events of the new Audio
\* object, and it plays at position 0.
C8_Witness ==
    /\ options.autoplay
    /\ lastOp = [name |-> "loadeddata", arg |-> 1]
    /\ Len(audios) = 1
    /\ currentAudioIndex = Number(0)
    /\ ~CurrentAudio.paused
    /\ CurrentAudio.currentTime = 0

C10_OnlyCurrentPlays ==
    /\ Cardinality({h \in DOMAIN audios : ~audios[h].paused}) <= 1
    /\ \A h \in DOMAIN audios : ~audios[h].paused => currentAudio = Ref(h)

\* C10 witness: under autoplay, 'loadeddata' of the replaced Audio object
\* fired after the swap, the new one plays and the replaced one is paused.
C10_Witness ==
    /\ options.autoplay
    /\ Len(audios) = 2
    /\ currentAudio = Ref(2)
    /\ lastOp = [name |-> "loadeddata", arg |-> 1]
    /\ ~audios[2].paused
    /\ audios[1].paused

\* C11: whenever there is a current Audio object, the current index is a
\* valid index into the tracks and the current Audio object is bound to the
\* source of the track at that index.
C11_IndexValidAndBound ==
    currentAudio # Null =>
        /\ currentAudioIndex # Null
        /\ currentAudioIndex.value \in ValidIndices
        /\ CurrentAudio.src =
              ResolvedSource(options.srcs[currentAudioIndex.value + 1])

\* C11 witness: the second Audio object, created by skipNext from index 1,
\* is current at the last index after its media loaded.
C11_Witness ==
    /\ Len(options.srcs) = 3
    /\ Len(audios) = 2
    /\ currentAudio = Ref(2)
    /\ currentAudioIndex = Number(2)
    /\ audios[1].src = "b.mp3"
    /\ CurrentAudio.src = "c.mp3"
    /\ CurrentAudio.readyState = 2
    /\ lastOp.name = "loadeddata"

\* C12: the volume stored by mute is set if and only if the current Audio
\* object is muted (its volume is 0).
C12_MuteStateConsistent ==
    currentAudio # Null =>
        (lastAudioVolume # Null <=> CurrentAudio.volume = Zero)

\* x <= y for two doubles that are not negative.
NumLeq(x, y) ==
    \/ x = Zero
    \/ /\ y # Zero
       /\ \/ x.exp < y.exp
          \/ /\ x.exp = y.exp
             /\ \/ x.hi < y.hi
                \/ x.hi = y.hi /\ x.mid < y.mid
                \/ x.hi = y.hi /\ x.mid = y.mid /\ x.lo <= y.lo

\* C13: the volume of the current Audio object is within 0..1, and as a
\* percentage (times 100) within 0..100.
C13_VolumeInRange ==
    currentAudio # Null =>
        /\ NumLeq(Zero, CurrentAudio.volume)
        /\ NumLeq(CurrentAudio.volume, NumFromNat(1))
        /\ NumLeq(NumMul(CurrentAudio.volume, 100), NumFromNat(100))

\* C13 witness: after a track change, the volume bar at its maximum, then
\* mute and unmute bring the volume back to 1.
C13_Witness ==
    /\ Len(audios) = 2
    /\ Len(volumeLog) = 2
    /\ volumeLog[1] = [op |-> "mute", before |-> NumFromNat(1)]
    /\ volumeLog[2].op = "unmute"
    /\ lastAudioVolume = Number(NumFromNat(100))
    /\ CurrentAudio.volume = NumFromNat(1)

\* The scrub bar shows the current Audio object: its position and, once its
\* metadata is loaded, its duration.
ScrubBarReflectsCurrent ==
    /\ currentAudio # Null
    /\ CurrentAudio.readyState > 0
    /\ progressControl.value = NumberToString(CurrentAudio.currentTime)
    /\ progressControl.max = DurationString(CurrentAudio)

\* C15: once a track change has replaced an Audio object, the scrub bar
\* eventually shows the new Audio object, whatever the replaced object's
\* queued events wrote to it.
C15_StaleDataTransient ==
    (Len(audios) > 1) ~> ScrubBarReflectsCurrent

\* C16: a 'loadedmetadata' event sets the scrub bar's value to 0 and its
\* maximum to the duration of the Audio object the event fired on.
C16_MetadataOfOwnHandle ==
    lastOp.name = "loadedmetadata" =>
        /\ progressControl.value = <<"0">>
        /\ progressControl.max =
              NumberToString(MediaDuration(audios[lastOp.arg].src))

\* C17: in the variants without options, an Audio object that setCurrentAudio
\* has replaced is paused, so at most one Audio object is playing.
C17_MinimalPausesReplaced ==
    /\ \A h \in DOMAIN audios : currentAudio # Ref(h) => audios[h].paused
    /\ Cardinality({h \in DOMAIN audios : ~audios[h].paused}) <= 1

\* C18: togglePlayback with a current Audio object flips its paused status
\* and changes nothing else: not the current index, not which Audio object is
\* current, not the volumes, not the other Audio objects; and the second of
\* two togglePlayback calls in a row brings back the paused status from
\* before the first.
C18_TogglePlaybackFlips ==
    /\ [][(lastOp'.name = "togglePlayback" /\ currentAudio # Null) =>
             /\ audios'[currentAudio.ref].paused = ~CurrentAudio.paused
             /\ UNCHANGED <<currentAudio, currentAudioIndex, lastAudioVolume>>
             /\ Len(audios') = Len(audios)
             /\ \A h \in DOMAIN audios :
                    /\ audios'[h].volume = audios[h].volume
                    /\ audios'[h].src = audios[h].src
                    /\ h # currentAudio.ref => audios'[h] = audios[h]]_vars
    /\ [][( /\ lastOp.name = "togglePlayback"
            /\ lastOp'.name = "togglePlayback"
            /\ currentAudio # Null ) =>
             (audios'[currentAudio.ref].paused <=> lastOp.arg = 1)]_vars

\* C18 witness: togglePlayback paused the current Audio object, which had
\* played one of its two seconds.
C18_Witness ==
    /\ lastOp = [name |-> "togglePlayback", arg |-> 0]
    /\ currentAudio # Null
    /\ CurrentAudio.paused
    /\ CurrentAudio.readyState = 2
    /\ CurrentAudio.currentTime = 1
    /\ MediaDuration(CurrentAudio.src) = 2

\* C14: once removeEventListeners() has run on an element, with no on()
\* since, an event dispatched at it invokes no callback, whatever was
\* registered before; and a further removeEventListeners() changes nothing.
C14_RemovedListenersSilent ==
    /\ []((lastOp.name = "dispatchEvent" /\ lastOp.arg \in detached) =>
             call.invoked = <<>>)
    /\ [][(lastOp'.name = "removeEventListeners" /\ lastOp'.arg \in detached) =>
             elements' = elements]_vars

\* C14 witness: 'click' dispatched at an element with three registrations,
\* two of them the same pair, all removed.
C14_Witness ==
    /\ lastOp = [name |-> "dispatchEvent", arg |-> 1]
    /\ 1 \in detached
    /\ call.event = "click"
    /\ call.invoked = <<>>
    /\ Len(elements[1].eventListeners) = 3
    /\ elements[1].eventListeners[1] = elements[1].eventListeners[3]
    /\ elements[1].eventListeners[1] = [event |-> "click", callback |-> "f"]
    /\ elements[1].eventListeners[2] = [event |-> "click", callback |-> "g"]

\* C19: addChild(name, child) on an element registers child under name
\* (whatever was registered under it), leaves the other names alone, makes
\* child's HTMLElement the last child node after the ones already there, and
\* returns the element.
C19_AddChildRegistersLast ==
    [][lastOp'.name = "addChild" =>
         LET e == lastOp'.arg
             name == call'.name
             child == call'.child
             before == elements[e].htmlElement.childNodes
         IN  /\ call'.returned = Ref(e)
             /\ Len(elements') = Len(elements)
             /\ DOMAIN elements'[e].children =
                   (DOMAIN elements[e].children) \cup {name}
             /\ elements'[e].children[name] = Ref(child)
             /\ \A other \in (DOMAIN elements[e].children) \ {name} :
                    elements'[e].children[other] = elements[e].children[other]
             /\ elements'[e].htmlElement.childNodes =
                   Append(SelectSeq(before, LAMBDA c : c # child), child)]_vars

\* C19 witness: a second child was added under the name of the first: both
\* are child nodes, the second one last, and the name yields the second.
C19_Witness ==
    /\ lastOp = [name |-> "addChild", arg |-> 1]
    /\ call.name = "x"
    /\ elements[1].htmlElement.childNodes = <<2, 3>>
    /\ call.child = 3
    /\ DOMAIN elements[1].children = {"x"}
    /\ elements[1].children["x"] = Ref(3)

\* The tree at address e is the one a description describes: tag and
\* attributes (as strings), one child node per child description, in order,
\* each the tree of its description, and the names of these child
\* descriptions, and no other, registered, each for the last child
\* description of that name.
RECURSIVE Mirrors(_, _)
Mirrors(e, description) ==
    LET node == elements[e]
        given == IF description.children.type = "undefined" THEN <<>>
                 ELSE description.children.items
        fields == IF description.attributes.type = "undefined" THEN {}
                  ELSE DOMAIN description.attributes.fields
    IN  /\ node.htmlElement.tagName = description.tag
        /\ DOMAIN node.htmlElement.attributes = fields
        /\ \A a \in fields :
               LET v == description.attributes.fields[a]
               IN  IF v.type = "number"
                   THEN StringToNumber(node.htmlElement.attributes[a]) = v.value
                   ELSE node.htmlElement.attributes[a] = v.value
        /\ Len(node.htmlElement.childNodes) = Len(given)
        /\ \A i \in DOMAIN given : Mirrors(node.htmlElement.childNodes[i], given[i])
        /\ DOMAIN node.children = {given[i].name : i \in DOMAIN given}
        /\ \A i \in DOMAIN given :
               (\A j \in DOMAIN given : j > i => given[j].name # given[i].name) =>
                   node.children[given[i].name] = Ref(node.htmlElement.childNodes[i])

\* C20: _createElement(options) returns a new element whose tree mirrors
\* the description: all its elements are new, and a name is registered only
\* with the element it was declared under.
C20_CreateElementMirrors ==
    lastOp.name = "createElement" =>
        /\ call.returned = Ref(lastOp.arg)
        /\ Mirrors(lastOp.arg, ElementOptions[call.options])
        /\ Subtree(elements, lastOp.arg) = lastOp.arg..Len(elements)
        /\ \A e \in 1..(lastOp.arg - 1) :
               Subtree(elements, e) \cap (lastOp.arg..Len(elements)) = {}

\* C20 witness: the description with a child that has a child of its own,
\* built when the heap held one element: "z" is registered with the child
\* and not with the root.
C20_Witness ==
    /\ lastOp = [name |-> "createElement", arg |-> 2]
    /\ Len(ElementOptions[call.options].children.items) = 1
    /\ Len(elements) = 4
    /\ DOMAIN elements[2].children = {"x"}
    /\ elements[2].children["x"] = Ref(3)
    /\ elements[3].children["z"] = Ref(4)
    /\ elements[4].htmlElement.attributes["value"] = <<"7", "5">>

\* C21: setCurrentAudio(index) with an index at which there is no track
\* creates no Audio object and leaves the current index and the current
\* Audio object as they were; the only change is that the current Audio
\* object, if any, is paused.
C21_InvalidIndexOnlyPauses ==
    [][(lastOp'.name = "setCurrentAudio" /\ lastOp'.arg \notin ValidIndices) =>
         /\ UNCHANGED <<currentAudio, currentAudioIndex, lastAudioVolume,
                        progressControl>>
         /\ Len(audios') = Len(audios)
         /\ \A h \in DOMAIN audios :
                IF currentAudio = Ref(h)
                THEN /\ audios'[h].paused
                     /\ audios'[h].src = audios[h].src
                     /\ audios'[h].volume = audios[h].volume
                     /\ audios'[h].currentTime = audios[h].currentTime
                     /\ audios'[h].readyState = audios[h].readyState
                ELSE audios'[h] = audios[h]]_vars

\* C21 witness: setCurrentAudio with the index past the last track, after
\* the second of three tracks was selected and played for a second: it is
\* still the current one, and paused.
C21_Witness ==
    /\ lastOp = [name |-> "setCurrentAudio", arg |-> 3]
    /\ Len(options.srcs) = 3
    /\ Len(audios) = 1
    /\ currentAudio = Ref(1)
    /\ currentAudioIndex = Number(1)
    /\ CurrentAudio.paused
    /\ CurrentAudio.currentTime = 1
    /\ CurrentAudio.timeupdate

\* C22: the constructor selects no track; with no track selected,
\* skipPrevious changes nothing, and skipNext selects the track at index 1
\* when there are at least two tracks and changes nothing otherwise.
C22_SkipsWithNoSelection ==
    /\ [](lastOp.name = "constructor" =>
            currentAudio = Null /\ currentAudioIndex = Null /\ audios = <<>>)
    /\ [][(lastOp'.name = "skipPrevious" /\ currentAudioIndex = Null) =>
             UNCHANGED <<audios, currentAudio, currentAudioIndex>>]_vars
    /\ [][(lastOp'.name = "skipNext" /\ currentAudioIndex = Null) =>
             IF Len(options.srcs) >= 2
             THEN /\ currentAudioIndex' = Number(1)
                  /\ currentAudio' = Ref(Len(audios) + 1)
                  /\ audios'[currentAudio'.ref].src =
                        ResolvedSource(options.srcs[2])
             ELSE UNCHANGED <<audios, currentAudio, currentAudioIndex>>]_vars

\* C22 witness: skipNext as the first selection of three tracks: the only
\* Audio object is the one of the second track.
C22_Witness ==
    /\ lastOp.name = "skipNext"
    /\ Len(options.srcs) = 3
    /\ Len(audios) = 1
    /\ currentAudioIndex = Number(1)
    /\ currentAudio = Ref(1)
    /\ CurrentAudio.src = "b.mp3"

\* C23: with no volume stored by a mute, unmute, and toggleMute at volume 0,
\* leave the current Audio object at volume 0, store no volume, and change
\* neither the current index nor the current Audio object.
C23_UnmuteWithoutMute ==
    [][( /\ lastAudioVolume = Null
         /\ currentAudio # Null
         /\ \/ lastOp'.name = "unmute"
            \/ lastOp'.name = "toggleMute" /\ CurrentAudio.volume = Zero ) =>
          /\ audios'[currentAudio.ref].volume = Zero
          /\ lastAudioVolume' = Null
          /\ Len(audios') = Len(audios)
          /\ UNCHANGED <<currentAudio, currentAudioIndex>>]_vars

\* C23 witness: unmute with nothing stored, called at volume 0.75, left the
\* current Audio object at volume 0.
C23_Witness ==
    /\ lastOp.name = "unmute"
    /\ lastAudioVolume = Null
    /\ volumeLog # <<>>
    /\ volumeLog[Len(volumeLog)] =
          [op |-> "unmute", before |-> NumDiv(NumFromNat(75), 100)]
    /\ CurrentAudio.volume = Zero

====
